---------------------------- MODULE Spec2Model ----------------------------
(***************************************************************************)
(* A model of generate_protocol_metrics.py: the five aggregators, their    *)
(* pagination loops, the ranking done by generate_html_dashboard and the   *)
(* orchestration in main.                                                  *)
(*                                                                         *)
(* The remote GraphQL endpoint is the environment.  Every HTTP request has *)
(* one of three outcomes: "ok" (status 200 and a parsed payload), "non200" *)
(* (another status code) and "exc" (requests.post or response.json()       *)
(* raises).  A paginated query is served from a finite backing list, which *)
(* is fixed when the loop starts.                                          *)
(*                                                                         *)
(* A Python dict is modelled as a sequence of <<key, value>> pairs with    *)
(* distinct keys, in insertion order; None is the string "None".           *)
(***************************************************************************)
EXTENDS Integers, Sequences, FiniteSets, TLC

VARIABLES
    pc,                      \* the place the program is at
    mode,                    \* "main": a run of main(); otherwise one function called alone
    api_key,                 \* os.getenv("GRAPH_API_KEY"): "None", "" or a key
    called,                  \* the aggregators main has invoked, in order (history)
    http_requests,           \* the number of requests.post calls issued (history)
    report,                  \* "none" or "written": index.html
    quarterly_data,          \* main's locals, one per aggregator
    network_comparison,
    rewards_metrics,
    delegation_metrics,
    network_data,
    c_network,               \* count_active_delegators: the network it counts for
    stats_data,              \* the graphNetwork record fetched before the count
    remote_delegators,       \* the remote's list of active delegators
    c_skip,                  \* count_active_delegators.skip
    active_delegators_count, \* count_active_delegators.active_delegators_count
    c_offsets,               \* the skip of every request of the current count (history)
    c_outcomes,              \* the outcome of every request of the current count (history)
    received_delegators,     \* the delegators of every page the count received (history)
    stats_log,               \* the networks whose graphNetwork record was requested (history)
    remote_subgraphs,        \* the remote's list of subgraphs
    skip,                    \* fetch_network_subgraph_counts.skip
    counts,                  \* fetch_network_subgraph_counts.counts
    indexers_by_network,     \* fetch_network_subgraph_counts.indexers_by_network
    s_offsets,               \* the skip of every subgraph request (history)
    s_outcomes,              \* the outcome of every subgraph request (history)
    fetched,                 \* the subgraph records received so far (history)
    data,                    \* generate_html_dashboard.data
    sorted_data,             \* generate_html_dashboard.sorted_data
    total_all_networks,      \* generate_html_dashboard.total_all_networks
    total_top_20,            \* generate_html_dashboard.total_top_20
    percentage,              \* generate_html_dashboard.percentage
    response_del,            \* the remote's answer to the stakeDelegateds query
    response_undel,          \* the remote's answer to the stakeDelegatedLockeds query
    remote_daily,            \* the remote's answer to the request for each boundary day
    arg_timestamp,           \* the argument of timestamp_to_day_number
    day_number,              \* what timestamp_to_day_number returned
    quarters,                \* fetch_quarterly_arbitrum_data.quarters
    response_stats,          \* the remote's answer to each network's graphNetwork query
    response_rewards         \* the remote's answer to the query of fetch_rewards_metrics

main_vars == <<api_key, called, report, quarterly_data, network_comparison,
               rewards_metrics, delegation_metrics>>
count_vars == <<c_network, stats_data, remote_delegators, c_skip,
                active_delegators_count, c_offsets, c_outcomes, received_delegators>>
subgraph_vars == <<remote_subgraphs, skip, counts, indexers_by_network,
                   s_offsets, s_outcomes, fetched>>
dashboard_vars == <<data, sorted_data, total_all_networks, total_top_20, percentage>>
unit_vars == <<response_del, response_undel, remote_daily, arg_timestamp, day_number,
               quarters, response_stats, response_rewards>>
vars == <<pc, mode, http_requests, stats_log, network_data, main_vars, count_vars,
          subgraph_vars, dashboard_vars, unit_vars>>

-----------------------------------------------------------------------------
(* Bounds of the model.                                                    *)

\* page_size = 1000 in fetch_network_subgraph_counts, scaled down so that
\* a backing list of a few records spans several pages.
page_size == 2
\* batch_size = 1000 in count_active_delegators, scaled down likewise.
batch_size == 2
\* The longest list of subgraphs the remote holds when the function is called alone.
MaxSubgraphs == 3
\* The longest list of subgraphs the remote holds in a run of main.
MaxMainSubgraphs == 3
\* The largest number of active delegators the remote holds in a run of main.
MaxDelegators == 3
\* The largest number of active delegators the remote holds when
\* count_active_delegators is called alone.
MaxCountDelegators == 4
\* The longest list handed to generate_html_dashboard when it is called alone.
MaxNetworks == 22
\* The longest answer to a delegation or undelegation query (1000 in the code).
MaxStakeEvents == 2
\* The number of days before and after the genesis epoch whose timestamps are converted.
MaxDays == 6

\* 10**18, the wei of one GRT, scaled down to fit 32-bit integers.
WeiPerGRT == 1000

\* [:20] in generate_html_dashboard.
TopN == 20

None == "None"
Outcomes == {"ok", "non200", "exc"}

Min(a, b) == IF a < b THEN a ELSE b

\* All sequences over S of length at most n.
SeqUpTo(S, n) == UNION {[1..k -> S] : k \in 0..n}

-----------------------------------------------------------------------------
(* Python built-ins.                                                       *)

dict_has(d, k) == \E i \in 1..Len(d) : d[i][1] = k

dict_get(d, k, default) ==
    IF dict_has(d, k) THEN d[CHOOSE i \in 1..Len(d) : d[i][1] = k][2] ELSE default

\* d[k] = v: an existing key keeps its place, a new key goes last.
dict_set(d, k, v) ==
    IF dict_has(d, k)
    THEN [i \in 1..Len(d) |-> IF d[i][1] = k THEN <<k, v>> ELSE d[i]]
    ELSE Append(d, <<k, v>>)

\* The remote's answer to (first: size, skip: offset) over a backing list.
page(backing, offset, size) ==
    SubSeq(backing, offset + 1, Min(offset + size, Len(backing)))

RECURSIVE insert_desc(_, _)
\* s holds <<key, element>> pairs sorted by key descending; x goes after every
\* pair whose key is >= its own.
insert_desc(s, x) ==
    IF s = <<>> THEN <<x>>
    ELSE IF Head(s)[1] >= x[1] THEN <<Head(s)>> \o insert_desc(Tail(s), x)
    ELSE <<x>> \o s

RECURSIVE sort_pairs_desc(_)
sort_pairs_desc(s) ==
    IF s = <<>> THEN <<>>
    ELSE insert_desc(sort_pairs_desc(SubSeq(s, 1, Len(s) - 1)), s[Len(s)])

\* sorted(s, key=..., reverse=True) and list.sort(key=..., reverse=True), keys
\* being the list of the elements' keys: stable, equal keys keep their order.
sorted_reverse(s, keys) ==
    LET done == sort_pairs_desc([i \in 1..Len(s) |-> <<keys[i], s[i]>>])
    IN  [i \in 1..Len(s) |-> done[i][2]]

RECURSIVE sum(_)
\* sum(s) of a list of integers
sum(s) == IF s = <<>> THEN 0 ELSE Head(s) + sum(Tail(s))

\* Python floats are IEEE 754 binary64 values: 53 significant bits, rounded to
\* nearest, ties to even.  A natural number is written in base 2^limb_bits,
\* least significant limb first, without high zero limbs (<<>> is 0); a float
\* is the record [significand, exp] of value significand * 2^exp, the
\* significand having exactly mantissa_bits bits, or float_zero.  The
\* magnitudes here stay far from overflow and subnormals.
mantissa_bits == 53
limb_bits == 13
limb_base == 2^limb_bits

\* a without its high zero limbs.
nat_strip(a) ==
    IF \A i \in 1..Len(a) : a[i] = 0 THEN <<>>
    ELSE SubSeq(a, 1, CHOOSE i \in 1..Len(a) :
                          a[i] # 0 /\ \A j \in (i + 1)..Len(a) : a[j] = 0)

\* An int 0 <= n < 2^31 as a natural number, and back.
nat_of(n) ==
    nat_strip(<<n % limb_base, (n \div limb_base) % limb_base,
                n \div (limb_base * limb_base)>>)
nat_value(a) == sum([i \in 1..Len(a) |-> a[i] * limb_base^(i - 1)])

\* a * k + carry; high zero limbs may remain.
RECURSIVE nat_mul_small(_, _, _)
nat_mul_small(a, k, carry) ==
    IF a = <<>> THEN nat_of(carry)
    ELSE LET v == a[1] * k + carry
         IN  <<v % limb_base>> \o nat_mul_small(Tail(a), k, v \div limb_base)

\* The number of bits of a > 0.
bit_length(a) ==
    limb_bits * (Len(a) - 1)
    + (CHOOSE b \in 1..limb_bits : 2^(b - 1) <= a[Len(a)] /\ a[Len(a)] < 2^b)

\* Bit i of a, bit 0 being the lowest, and whether one of the m low bits is 1.
nat_bit(a, i) ==
    IF i \div limb_bits >= Len(a) THEN 0
    ELSE (a[i \div limb_bits + 1] \div 2^(i % limb_bits)) % 2
nat_low_bits_set(a, m) ==
    \/ \E j \in 1..Min(m \div limb_bits, Len(a)) : a[j] # 0
    \/ /\ m \div limb_bits < Len(a)
       /\ a[m \div limb_bits + 1] % 2^(m % limb_bits) # 0

\* a * 2^c
nat_shift_left(a, c) ==
    LET r == c % limb_bits
        wide == a \o <<0>>
        moved == [i \in 1..Len(wide) |->
                    ((wide[i] * 2^r) % limb_base)
                    + (IF i > 1 THEN wide[i - 1] \div 2^(limb_bits - r) ELSE 0)]
    IN  nat_strip([i \in 1..(c \div limb_bits) |-> 0] \o moved)

\* a \div 2^c
nat_shift_right(a, c) ==
    IF c \div limb_bits >= Len(a) THEN <<>>
    ELSE LET r == c % limb_bits
             rest == SubSeq(a, c \div limb_bits + 1, Len(a))
         IN  nat_strip([i \in 1..Len(rest) |->
                          (rest[i] \div 2^r)
                          + (IF i < Len(rest)
                             THEN (rest[i + 1] % 2^r) * 2^(limb_bits - r) ELSE 0)])

\* a <= b
nat_leq(a, b) ==
    \/ Len(a) < Len(b)
    \/ /\ Len(a) = Len(b)
       /\ \/ a = b
          \/ \E i \in 1..Len(a) :
                /\ a[i] < b[i]
                /\ \A j \in (i + 1)..Len(a) : a[j] = b[j]

float_zero == [significand |-> <<>>, exp |-> 0]

\* The float nearest to a * 2^e, ties to even: a is cut to mantissa_bits bits
\* and goes up by one when the part cut off is more than half a unit, or half
\* a unit and the last kept bit is 1.
float_normal(rounded, e) ==
    IF bit_length(rounded) > mantissa_bits
    THEN [significand |-> nat_shift_right(rounded, 1), exp |-> e + 1]
    ELSE [significand |-> rounded, exp |-> e]

float_cut(a, e, d, kept) ==
    IF /\ nat_bit(a, d - 1) = 1
       /\ nat_low_bits_set(a, d - 1) \/ nat_bit(kept, 0) = 1
    THEN float_normal(nat_strip(nat_mul_small(kept, 1, 1)), e + d)
    ELSE [significand |-> kept, exp |-> e + d]

float_sized(a, e, len) ==
    IF len <= mantissa_bits
    THEN [significand |-> nat_shift_left(a, mantissa_bits - len),
          exp |-> e - (mantissa_bits - len)]
    ELSE float_cut(a, e, len - mantissa_bits, nat_shift_right(a, len - mantissa_bits))

float_round(a, e) == IF a = <<>> THEN float_zero ELSE float_sized(a, e, bit_length(a))

\* The first n limbs of r / g after the point (r < g), least significant
\* first, and the remainder they leave.
RECURSIVE fraction_limbs(_, _, _)
fraction_limbs(r, g, n) ==
    IF n = 0 THEN <<>>
    ELSE fraction_limbs((r * limb_base) % g, g, n - 1) \o <<(r * limb_base) \div g>>

RECURSIVE fraction_rest(_, _, _)
fraction_rest(r, g, n) ==
    IF n = 0 THEN r ELSE fraction_rest((r * limb_base) % g, g, n - 1)

\* int / int: the float nearest to the quotient; division by zero raises
\* ZeroDivisionError.  The quotient is computed to more bits than a float
\* keeps, with one more bit that says whether anything was left.
true_divide(t, g) ==
    IF g = 0 THEN [raised |-> TRUE, value |-> float_zero]
    ELSE LET n == mantissa_bits \div limb_bits + 3
             quotient == nat_strip(fraction_limbs(t % g, g, n) \o nat_of(t \div g))
             inexact == IF fraction_rest(t % g, g, n) = 0 THEN 0 ELSE 1
         IN  [raised |-> FALSE,
              value |-> float_round(nat_strip(nat_mul_small(quotient, 2, inexact)),
                                    -(limb_bits * n + 1))]

\* float * int, the int being exactly representable.
float_mul(f, k) == float_round(nat_strip(nat_mul_small(f.significand, k, 0)), f.exp)

\* The float that equals the int k.
float_of_int(k) == float_round(nat_of(k), 0)

\* int(x) of a float x >= 0: the integer part.
float_to_int(f) ==
    IF f.exp >= 0 THEN nat_value(nat_shift_left(f.significand, f.exp))
    ELSE nat_value(nat_shift_right(f.significand, -f.exp))

-----------------------------------------------------------------------------
(* fetch_network_subgraph_counts                                           *)

Networks == {"mainnet", "base"}

\* indexerAllocations of a deployment: the indexer id of each allocation, None
\* for an allocation that has no indexer.
AllocationLists(n) ==
    IF n = "mainnet"
    THEN {<<>>, <<"A">>, <<"A", "A">>, <<"A", "B">>, <<None, "B">>}
    ELSE {<<>>, <<"A">>, <<"B">>}

\* A subgraph record of the remote: whether currentVersion.subgraphDeployment
\* and its manifest are there, the manifest's network (None when absent) and
\* the deployment's active allocations.
SubgraphItems ==
    UNION {{[has_deployment |-> TRUE, has_manifest |-> TRUE, network |-> n,
              allocations |-> a] : a \in AllocationLists(n)} : n \in Networks}
    \cup {[has_deployment |-> TRUE, has_manifest |-> TRUE, network |-> None,
           allocations |-> <<"A">>],
          [has_deployment |-> TRUE, has_manifest |-> FALSE, network |-> None,
           allocations |-> <<"A">>],
          [has_deployment |-> FALSE, has_manifest |-> FALSE, network |-> None,
           allocations |-> <<>>]}

\* The subgraph records a run of main is served: a record of one network and
\* a record without a manifest.
MainSubgraphItems ==
    {it \in SubgraphItems :
        /\ it.has_deployment
        /\ it.network = "mainnet" \/ ~it.has_manifest
        /\ it.allocations = <<"A">>}

\* The ids that "for alloc in allocations: ... add(indexer["id"])" adds.
allocation_ids(allocations) ==
    {allocations[i] : i \in {j \in 1..Len(allocations) : allocations[j] # None}}

\* process_item without "if not network: continue".
process_item_no_network_check(st, item) ==
    IF ~(item.has_deployment /\ item.has_manifest) THEN st
    ELSE LET network == item.network
             seen == dict_get(st.indexers_by_network, network, {})
         IN  [counts |-> dict_set(st.counts, network,
                                  dict_get(st.counts, network, 0) + 1),
              indexers_by_network |->
                  dict_set(st.indexers_by_network, network,
                           seen \cup allocation_ids(item.allocations))]

\* process_item with the network's set replaced by the record's indexers
\* instead of extended by them.
process_item_overwrite(st, item) ==
    IF ~(item.has_deployment /\ item.has_manifest) THEN st
    ELSE IF item.network = None THEN st
    ELSE [counts |-> dict_set(st.counts, item.network,
                              dict_get(st.counts, item.network, 0) + 1),
          indexers_by_network |->
              dict_set(st.indexers_by_network, item.network,
                       allocation_ids(item.allocations))]

\* The body of "for item in batch", on st = [counts, indexers_by_network].
process_item(st, item) ==
    IF ~(item.has_deployment /\ item.has_manifest) THEN st
    ELSE IF item.network = None THEN st
    ELSE LET network == item.network
             seen == dict_get(st.indexers_by_network, network, {})
         IN  [counts |-> dict_set(st.counts, network,
                                  dict_get(st.counts, network, 0) + 1),
              indexers_by_network |->
                  dict_set(st.indexers_by_network, network,
                           seen \cup allocation_ids(item.allocations))]

RECURSIVE process_batch(_, _)
process_batch(batch, st) ==
    IF batch = <<>> THEN st
    ELSE process_batch(Tail(batch), process_item(st, Head(batch)))

\* unique_indexer_count of one network.
unique_indexer_count(indexers, network) ==
    Cardinality(dict_get(indexers, network, {}))

\* build_result with the two counts passed in each other's place.
build_result_swapped(cnts, indexers) ==
    [i \in 1..Len(cnts) |->
        [network_name |-> cnts[i][1],
         subgraph_count |-> unique_indexer_count(indexers, cnts[i][1]),
         unique_indexer_count |-> cnts[i][2]]]

\* The list built after the loop: one NetworkIndexerData per key of counts.
build_result(cnts, indexers) ==
    [i \in 1..Len(cnts) |->
        [network_name |-> cnts[i][1],
         subgraph_count |-> cnts[i][2],
         unique_indexer_count |-> unique_indexer_count(indexers, cnts[i][1])]]

\* The loop without "skip += page_size".
next_skip_stuck(offset) == offset

\* skip += page_size
next_skip(offset) == offset + page_size

\* subgraph_step without the check of response.status_code.
subgraph_step_ignore_status(outcome, batch) ==
    IF outcome = "exc" THEN "raise"
    ELSE IF batch = <<>> THEN "break"
    ELSE "continue"

\* What a response of the given outcome does to the loop: "raise" (the
\* exception leaves the function), "break" or "continue".
subgraph_step(outcome, batch) ==
    IF outcome = "exc" THEN "raise"
    ELSE IF outcome = "non200" THEN "break"
    ELSE IF batch = <<>> THEN "break"
    ELSE "continue"

\* One iteration of "while True", and what follows the loop when it breaks.
SubgraphRequest ==
    /\ pc = "subgraphs"
    /\ \E outcome \in Outcomes :
        LET batch == page(remote_subgraphs, skip, page_size)
            step == subgraph_step(outcome, batch)
            st == process_batch(batch, [counts |-> counts,
                                        indexers_by_network |-> indexers_by_network])
        IN  /\ s_offsets' = Append(s_offsets, skip)
            /\ s_outcomes' = Append(s_outcomes, outcome)
            /\ http_requests' = http_requests + 1
            /\ IF step = "raise"
               THEN /\ pc' = IF mode = "main" THEN "crashed" ELSE "raised"
                    /\ UNCHANGED <<skip, counts, indexers_by_network, fetched, network_data>>
               ELSE IF step = "break"
               THEN /\ pc' = IF mode = "main" THEN "main_check" ELSE "returned"
                    /\ network_data' = build_result(counts, indexers_by_network)
                    /\ UNCHANGED <<skip, counts, indexers_by_network, fetched>>
               ELSE /\ pc' = pc
                    /\ counts' = st.counts
                    /\ indexers_by_network' = st.indexers_by_network
                    /\ fetched' = fetched \o batch
                    /\ skip' = next_skip(skip)
                    /\ UNCHANGED network_data
    /\ UNCHANGED <<unit_vars, mode, stats_log, remote_subgraphs, main_vars, count_vars,
                   dashboard_vars>>

-----------------------------------------------------------------------------
(* fetch_network_comparison_stats and its helper count_active_delegators   *)

\* int(x) // 10**18
to_grt(wei) == wei \div WeiPerGRT

\* A graphNetwork record, its counters in wei.
GraphNetworks ==
    {[totalIndexingRewards |-> 5 * WeiPerGRT + 1,
      totalIndexingIndexerRewards |-> 3 * WeiPerGRT,
      totalIndexingDelegatorRewards |-> 2 * WeiPerGRT + 1,
      delegatorCount |-> 4]}

NoGraphNetwork ==
    [totalIndexingRewards |-> 0, totalIndexingIndexerRewards |-> 0,
     totalIndexingDelegatorRewards |-> 0, delegatorCount |-> 0]

\* The responses to the graphNetwork(id: "1") query: has_data is false when
\* the payload holds no graphNetwork record.
StatsResponses ==
    {[outcome |-> "exc", has_data |-> FALSE, graphNetwork |-> NoGraphNetwork],
     [outcome |-> "non200", has_data |-> FALSE, graphNetwork |-> NoGraphNetwork],
     [outcome |-> "ok", has_data |-> FALSE, graphNetwork |-> NoGraphNetwork]}
    \cup {[outcome |-> "ok", has_data |-> TRUE, graphNetwork |-> g] : g \in GraphNetworks}

\* result['arbitrum'] = {...}
network_stats(g, active) ==
    << <<"total_rewards", to_grt(g.totalIndexingRewards)>>,
       <<"indexer_rewards", to_grt(g.totalIndexingIndexerRewards)>>,
       <<"delegator_rewards", to_grt(g.totalIndexingDelegatorRewards)>>,
       <<"delegator_count", g.delegatorCount>>,
       <<"active_delegators", active>> >>

\* Whether the try block of one network goes on to count_active_delegators:
\* status 200 and a non-empty graphNetwork record.  An exception is caught
\* and logged by the block's own except clause.
stats_fetched(resp) == resp.outcome = "ok" /\ resp.has_data

\* after_stats with both networks fetched in one try block: a failure of the
\* first leaves the function.
after_stats_single_try(network) == "rewards"

\* Where fetch_network_comparison_stats goes on after the try block of a
\* network: the Ethereum block follows the Arbitrum one however that ended.
after_stats(network) == IF network = "arbitrum" THEN "comparison_ethereum" ELSE "rewards"

\* The two try blocks of fetch_network_comparison_stats, up to the call of
\* count_active_delegators.
FetchNetworkStats ==
    /\ pc \in {"comparison_arbitrum", "comparison_ethereum"}
    /\ LET network == IF pc = "comparison_arbitrum" THEN "arbitrum" ELSE "ethereum"
       IN  \E resp \in (IF mode = "main" THEN StatsResponses ELSE {response_stats[network]}) :
            /\ http_requests' = http_requests + 1
            /\ called' = IF network = "arbitrum"
                         THEN Append(called, "fetch_network_comparison_stats")
                         ELSE called
            /\ network_comparison' =
                   IF network = "arbitrum"
                   THEN [arbitrum |-> <<>>, ethereum |-> <<>>]
                   ELSE network_comparison
            /\ stats_log' = Append(stats_log, network)
            /\ IF stats_fetched(resp)
               THEN /\ pc' = "count"
                    /\ c_network' = network
                    /\ stats_data' = resp.graphNetwork
                    /\ \E n \in 0..MaxDelegators : remote_delegators' = [i \in 1..n |-> i]
                    /\ c_skip' = 0
                    /\ active_delegators_count' = 0
                    /\ c_offsets' = <<>>
                    /\ c_outcomes' = <<>>
                    /\ received_delegators' = <<>>
               ELSE /\ pc' = after_stats(network)
                    /\ UNCHANGED count_vars
    /\ UNCHANGED <<unit_vars, mode, network_data, api_key, report, quarterly_data,
                   rewards_metrics, delegation_metrics, subgraph_vars, dashboard_vars>>

\* skip += batch_size
next_count_skip(offset) == offset + batch_size

\* The pages the remote may send for "first: size, skip: offset": the slice
\* of its list; when count_active_delegators is called alone, the remote
\* orders its delegators anew for every request, so that a page holds any
\* records of the list, each once, and as many of them as the slice.
delegator_pages(backing, offset, size) ==
    IF mode # "count" THEN {page(backing, offset, size)}
    ELSE {p \in [1..Len(page(backing, offset, size)) -> {backing[i] : i \in 1..Len(backing)}] :
            \A i, j \in 1..Len(p) : i # j => p[i] # p[j]}

\* active_delegators_count += batch_count, on a response with status 200.
count_total(outcome, count, batch_count) ==
    IF outcome = "ok" THEN count + batch_count ELSE count

\* count_step that goes on until a page is empty.
count_step_until_empty(outcome, batch_count) ==
    IF outcome = "ok" /\ batch_count > 0 THEN "continue" ELSE "break"

\* count_step that asks for the next page whatever the status.
count_step_ignore_status(outcome, batch_count) ==
    IF outcome = "exc" \/ batch_count < batch_size THEN "break" ELSE "continue"

\* What a response does to the loop of count_active_delegators: an exception
\* is caught inside the loop and breaks it, like a status other than 200.
count_step(outcome, batch_count) ==
    IF outcome = "ok" /\ batch_count >= batch_size THEN "continue" ELSE "break"

\* One iteration of "while True" in count_active_delegators; when the loop
\* breaks, the count is returned and the caller stores the network's stats.
CountRequest ==
    /\ pc = "count"
    /\ \E outcome \in Outcomes :
        \E delegators \in delegator_pages(remote_delegators, c_skip, batch_size) :
        \E total \in {count_total(outcome, active_delegators_count, Len(delegators))} :
            /\ c_offsets' = Append(c_offsets, c_skip)
            /\ c_outcomes' = Append(c_outcomes, outcome)
            /\ received_delegators' = IF outcome = "ok"
                                      THEN received_delegators \o delegators
                                      ELSE received_delegators
            /\ http_requests' = http_requests + 1
            /\ active_delegators_count' = total
            /\ IF count_step(outcome, Len(delegators)) = "continue"
               THEN /\ c_skip' = next_count_skip(c_skip)
                    /\ pc' = pc
                    /\ UNCHANGED network_comparison
               ELSE /\ c_skip' = c_skip
                    /\ network_comparison' =
                           IF mode = "count"
                           THEN network_comparison
                           ELSE [network_comparison EXCEPT
                                    ![c_network] = network_stats(stats_data, total)]
                    /\ pc' = IF mode = "count" THEN "returned" ELSE after_stats(c_network)
    /\ UNCHANGED <<unit_vars, mode, stats_log, network_data, api_key, called, report,
                   quarterly_data, rewards_metrics, delegation_metrics, c_network,
                   stats_data, remote_delegators, subgraph_vars, dashboard_vars>>

-----------------------------------------------------------------------------
(* fetch_rewards_metrics                                                   *)

\* The whole function is one try block: every path returns a tuple.
fetch_rewards_metrics(resp) ==
    IF resp.outcome = "exc" THEN [raised |-> FALSE, value |-> <<0, 0, 0>>]
    ELSE IF resp.outcome # "ok" THEN [raised |-> FALSE, value |-> <<0, 0, 0>>]
    ELSE IF ~resp.has_data THEN [raised |-> FALSE, value |-> <<0, 0, 0>>]
    ELSE [raised |-> FALSE,
          value |-> <<to_grt(resp.graphNetwork.totalIndexingRewards),
                      to_grt(resp.graphNetwork.totalIndexingIndexerRewards),
                      to_grt(resp.graphNetwork.totalIndexingDelegatorRewards)>>]

-----------------------------------------------------------------------------
(* fetch_delegation_metrics                                                *)

\* A stakeDelegated / stakeDelegatedLocked record; complete is false when one
\* of the keys the function reads is absent (reading it raises KeyError).
stake_record(tokens, timestamp, hash) ==
    [complete |-> TRUE, tokens |-> tokens, delegator |-> "d1", indexer |-> "A",
     blockTimestamp |-> timestamp, transactionHash |-> hash]

\* The responses to either query in a run of main.
MainStakeResponses ==
    {[outcome |-> "exc", records |-> <<>>],
     [outcome |-> "non200", records |-> <<>>],
     [outcome |-> "ok", records |-> <<>>],
     [outcome |-> "ok", records |-> <<stake_record(5 * WeiPerGRT + 1, 100, "0x1")>>]}

\* The events one stream adds to events_list.
stake_events(records, type) ==
    [i \in 1..Len(records) |->
        [type |-> type,
         tokens |-> to_grt(records[i].tokens),
         delegator |-> records[i].delegator,
         indexer |-> records[i].indexer,
         timestamp |-> records[i].blockTimestamp,
         tx_hash |-> records[i].transactionHash]]

\* stake_total with the quotient rounded up.
stake_total_rounded_up(records) ==
    (sum([i \in 1..Len(records) |-> records[i].tokens]) + WeiPerGRT - 1) \div WeiPerGRT

\* stake_total with every amount converted before the sum.
stake_total_convert_first(records) ==
    sum([i \in 1..Len(records) |-> records[i].tokens \div WeiPerGRT])

\* sum(int(d["tokens"]) for d in records) // 10**18
stake_total(records) == to_grt(sum([i \in 1..Len(records) |-> records[i].tokens]))

\* stake_raises with a status other than 200 handled like an exception.
stake_raises_on_status(resp) ==
    \/ resp.outcome # "ok"
    \/ \E i \in 1..Len(resp.records) : ~resp.records[i].complete

\* Whether reading a stream's records raises.
stake_raises(resp) ==
    \/ resp.outcome = "exc"
    \/ /\ resp.outcome = "ok"
       /\ \E i \in 1..Len(resp.records) : ~resp.records[i].complete

\* delegation_net with a negative difference reported as 0.
delegation_net_clamped(total_delegated, total_undelegated) ==
    IF total_delegated >= total_undelegated THEN total_delegated - total_undelegated
    ELSE 0

\* net = total_delegated - total_undelegated
delegation_net(total_delegated, total_undelegated) == total_delegated - total_undelegated

\* events_list.sort(key=lambda x: x["timestamp"], reverse=True) left out.
sort_events_skipped(events_list) == events_list

\* events_list.sort(key=lambda x: x["timestamp"], reverse=True)
sort_events(events_list) ==
    sorted_reverse(events_list,
                   [i \in 1..Len(events_list) |-> events_list[i].timestamp])

\* The function is one try block; its except clause returns (0, 0, 0, []).
\* requests is the number of requests issued.
fetch_delegation_metrics(resp_del, resp_undel) ==
    IF stake_raises(resp_del)
    THEN [raised |-> FALSE, value |-> <<0, 0, 0, <<>>>>, requests |-> 1]
    ELSE IF stake_raises(resp_undel)
    THEN [raised |-> FALSE, value |-> <<0, 0, 0, <<>>>>, requests |-> 2]
    ELSE LET del_ok == resp_del.outcome = "ok"
             undel_ok == resp_undel.outcome = "ok"
             total_delegated == IF del_ok THEN stake_total(resp_del.records) ELSE 0
             total_undelegated == IF undel_ok THEN stake_total(resp_undel.records) ELSE 0
             events_list ==
                 (IF del_ok THEN stake_events(resp_del.records, "delegation") ELSE <<>>)
                 \o (IF undel_ok THEN stake_events(resp_undel.records, "undelegation")
                     ELSE <<>>)
             ordered == sort_events(events_list)
         IN  [raised |-> FALSE,
              value |-> <<total_delegated, total_undelegated,
                          delegation_net(total_delegated, total_undelegated), ordered>>,
              requests |-> 2]

-----------------------------------------------------------------------------
(* fetch_quarterly_arbitrum_data                                           *)

genesis_timestamp == 1608134400
seconds_per_day == 86400

\* int((timestamp - genesis_timestamp) / 86400): "/" is the float division and
\* int() drops the fraction, toward zero; the quotient of a negative number is
\* minus the quotient of its absolute value.
timestamp_to_day_number(timestamp) ==
    LET elapsed == timestamp - genesis_timestamp
    IN  IF elapsed >= 0 THEN float_to_int(true_divide(elapsed, seconds_per_day).value)
        ELSE -float_to_int(true_divide(-elapsed, seconds_per_day).value)

\* dt(year, month, 1).timestamp() of the quarter boundaries, the local zone being UTC.
ts_2024_04 == 1711929600
ts_2024_07 == 1719792000
ts_2024_10 == 1727740800
ts_2025_01 == 1735689600
ts_2025_04 == 1743465600
ts_2025_07 == 1751328000
ts_2025_10 == 1759276800

quarter(label, period, start_ts, next_ts) ==
    [quarter |-> label, period |-> period,
     start_day |-> timestamp_to_day_number(start_ts),
     end_day |-> timestamp_to_day_number(next_ts)]

\* The list "quarters": it depends on nothing but the clock's zone, and is held
\* in the variable quarters from the start.
configured_quarters ==
    << quarter("Q3-2025", "Jul-Sep 2025", ts_2025_07, ts_2025_10),
       quarter("Q2-2025", "Apr-Jun 2025", ts_2025_04, ts_2025_07),
       quarter("Q1-2025", "Jan-Mar 2025", ts_2025_01, ts_2025_04),
       quarter("Q4-2024", "Oct-Dec 2024", ts_2024_10, ts_2025_01),
       quarter("Q3-2024", "Jul-Sep 2024", ts_2024_07, ts_2024_10),
       quarter("Q2-2024", "Apr-Jun 2024", ts_2024_04, ts_2024_07) >>

rollup(label, period, total, indexer, delegator) ==
    [quarter |-> label, period |-> period, total_rewards |-> total,
     indexer_rewards |-> indexer, delegator_rewards |-> delegator]

fallback_data ==
    << rollup("Q3-2025", "Jul-Sep 2025", 58420000, 25503600, 32916400),
       rollup("Q2-2025", "Apr-Jun 2025", 56280000, 24562200, 31717800),
       rollup("Q1-2025", "Jan-Mar 2025", 54120000, 23632400, 30487600),
       rollup("Q4-2024", "Oct-Dec 2024", 51850000, 22641800, 29208200),
       rollup("Q3-2024", "Jul-Sep 2024", 49720000, 21710800, 28009200),
       rollup("Q2-2024", "Apr-Jun 2024", 47680000, 20817200, 26862800) >>

\* The days fetch_quarterly_arbitrum_data asks for.
BoundaryDays ==
    {quarters[i].start_day : i \in 1..Len(quarters)}
    \cup {quarters[i].end_day - 1 : i \in 1..Len(quarters)}

\* complete is false when the row lacks one of the counters the loop reads.
NoDailyData ==
    [complete |-> TRUE, totalIndexingRewards |-> 0, totalIndexingIndexerRewards |-> 0,
     totalIndexingDelegatorRewards |-> 0]

\* get_network_data_for_day: data[0] of a 200 response with a non-empty list,
\* None otherwise; an exception is caught and gives None.
get_network_data_for_day(resp) ==
    IF resp.outcome = "ok" /\ resp.has_data
    THEN [found |-> TRUE, row |-> resp.row]
    ELSE [found |-> FALSE, row |-> NoDailyData]

\* has_both with one snapshot being enough.
has_either(start_data, end_data) == start_data.found \/ end_data.found

\* "if start_data and end_data"
has_both(start_data, end_data) == start_data.found /\ end_data.found

\* reward_delta with each counter converted before the subtraction.
reward_delta_convert_first(end_counter, start_counter) ==
    to_grt(end_counter) - to_grt(start_counter)

\* reward_delta with a negative difference reported as 0.
reward_delta_clamped(end_counter, start_counter) ==
    IF end_counter >= start_counter THEN to_grt(end_counter - start_counter) ELSE 0

\* (int(end_data[field]) - int(start_data[field])) // 10**18
reward_delta(end_counter, start_counter) == to_grt(end_counter - start_counter)

\* The loop over quarters: one rollup per quarter with both snapshots.  A row
\* that lacks a counter raises KeyError, which the loop catches: the quarter
\* gets no rollup.
live_rollups(daily) ==
    LET start_of(q) == get_network_data_for_day(daily[q.start_day])
        end_of(q) == get_network_data_for_day(daily[q.end_day - 1])
        appended(q) == /\ has_both(start_of(q), end_of(q))
                       /\ start_of(q).row.complete
                       /\ end_of(q).row.complete
        computed == SelectSeq(quarters, appended)
    IN  [i \in 1..Len(computed) |->
            LET q == computed[i]
                start_data == start_of(q).row
                end_data == end_of(q).row
            IN  rollup(q.quarter, q.period,
                       reward_delta(end_data.totalIndexingRewards,
                                    start_data.totalIndexingRewards),
                       reward_delta(end_data.totalIndexingIndexerRewards,
                                    start_data.totalIndexingIndexerRewards),
                       reward_delta(end_data.totalIndexingDelegatorRewards,
                                    start_data.totalIndexingDelegatorRewards))]

\* with_fallback with the whole table taken as soon as a quarter is missing.
with_fallback_overwrite(computed) == IF Len(computed) < 6 THEN fallback_data ELSE computed

\* "if len(quarterly_data) < 6": the fallback rows of the quarters not computed
\* are appended after the computed ones.
with_fallback(computed) ==
    IF Len(computed) < 6
    THEN LET existing_quarters == {computed[i].quarter : i \in 1..Len(computed)}
             absent(row) == row.quarter \notin existing_quarters
         IN  computed \o SelectSeq(fallback_data, absent)
    ELSE computed

\* daily maps each day asked for to the response to its request.  Every
\* request is made (two per quarter) and no exception leaves the function.
fetch_quarterly_arbitrum_data(daily) ==
    [raised |-> FALSE,
     value |-> with_fallback(live_rollups(daily)),
     requests |-> 2 * Len(quarters)]

\* The remote's daily rows: cumulative counters that grow with the day.
daily_row(day) ==
    [complete |-> TRUE,
     totalIndexingRewards |-> 3 * day * WeiPerGRT,
     totalIndexingIndexerRewards |-> day * WeiPerGRT,
     totalIndexingDelegatorRewards |-> 2 * day * WeiPerGRT]

\* The remote of a run of main: the quarters at the positions in live have both
\* snapshots, the end snapshot of the others fails as failure says.
quarterly_remote(live, failure) ==
    [day \in BoundaryDays |->
        IF \E i \in 1..Len(quarters) : i \notin live /\ quarters[i].end_day - 1 = day
        THEN [outcome |-> failure, has_data |-> FALSE, row |-> NoDailyData]
        ELSE [outcome |-> "ok", has_data |-> TRUE, row |-> daily_row(day)]]

MainQuarterlyRemotes ==
    {quarterly_remote(live, failure) :
        live \in {{}, {2}, 1..6}, failure \in {"exc", "non200", "ok"}}

-----------------------------------------------------------------------------
(* generate_html_dashboard: the totals and the ranking                     *)

subgraph_counts(entries) == [i \in 1..Len(entries) |-> entries[i].subgraph_count]

\* top_entries with the slice taken before the sort.
top_entries_slice_first(entries) ==
    LET first == SubSeq(entries, 1, Min(TopN, Len(entries)))
    IN  sorted_reverse(first, subgraph_counts(first))

\* sorted(data, key=lambda x: x.subgraph_count, reverse=True)[:20]
top_entries(entries) ==
    LET ranked == sorted_reverse(entries, subgraph_counts(entries))
    IN  SubSeq(ranked, 1, Min(TopN, Len(ranked)))

\* top_entries_total / total * 100 with the guard against division by zero
\* taken away.
percentage_of_unguarded(top, total) ==
    LET ratio == true_divide(top, total)
    IN  [raised |-> ratio.raised, type |-> "float",
         value |-> float_mul(ratio.value, 100)]

\* (total_top_20 / total_all_networks * 100) if total_all_networks > 0 else 0:
\* a float, or the int 0.
percentage_of(top, total) ==
    IF total > 0
    THEN [raised |-> FALSE, type |-> "float",
          value |-> float_mul(true_divide(top, total).value, 100)]
    ELSE [raised |-> FALSE, type |-> "int", value |-> float_zero]

GenerateDashboard ==
    /\ pc = "dashboard"
    /\ \E total \in {sum(subgraph_counts(network_data))},
          ranked \in {top_entries(network_data)} :
        \E result \in {percentage_of(sum(subgraph_counts(ranked)), total)} :
            /\ data' = network_data
            /\ total_all_networks' = total
            /\ sorted_data' = ranked
            /\ total_top_20' = sum(subgraph_counts(ranked))
            /\ IF result.raised
               THEN /\ pc' = IF mode = "main" THEN "crashed" ELSE "raised"
                    /\ UNCHANGED <<percentage, report>>
               ELSE /\ percentage' = [type |-> result.type, value |-> result.value]
                    /\ report' = "written"
                    /\ pc' = "done"
    /\ UNCHANGED <<unit_vars, mode, http_requests, stats_log, network_data, api_key,
                   called, quarterly_data, network_comparison, rewards_metrics,
                   delegation_metrics, count_vars, subgraph_vars>>

-----------------------------------------------------------------------------
(* Initial values of the parts a specification does not run.               *)

IdleMain ==
    /\ api_key = "key"
    /\ called = <<>>
    /\ report = "none"
    /\ quarterly_data = <<>>
    /\ network_comparison = [arbitrum |-> <<>>, ethereum |-> <<>>]
    /\ rewards_metrics = <<0, 0, 0>>
    /\ delegation_metrics = <<0, 0, 0, <<>>>>

IdleCount ==
    /\ c_network = None
    /\ stats_data = NoGraphNetwork
    /\ remote_delegators = <<>>
    /\ c_skip = 0
    /\ active_delegators_count = 0
    /\ c_offsets = <<>>
    /\ c_outcomes = <<>>
    /\ received_delegators = <<>>
    /\ stats_log = <<>>

IdleSubgraph ==
    /\ remote_subgraphs = <<>>
    /\ skip = 0
    /\ counts = <<>>
    /\ indexers_by_network = <<>>
    /\ s_offsets = <<>>
    /\ s_outcomes = <<>>
    /\ fetched = <<>>

IdleDashboard ==
    /\ data = <<>>
    /\ sorted_data = <<>>
    /\ total_all_networks = 0
    /\ total_top_20 = 0
    /\ percentage = [type |-> "int", value |-> float_zero]

IdleUnit ==
    /\ quarters = configured_quarters
    /\ response_stats = None
    /\ response_rewards = None
    /\ response_del = None
    /\ response_undel = None
    /\ remote_daily = None
    /\ arg_timestamp = 0
    /\ day_number = 0

-----------------------------------------------------------------------------
(* main                                                                    *)

\* key_missing as "if api_key is None".
key_is_none(key) == key = None

\* "if not api_key": None and the empty string are both falsy.
key_missing(key) == key = None \/ key = ""

\* Where a call of an aggregator leaves main: an exception that leaves the
\* aggregator is caught nowhere in main.
after_call(raised, next) == IF raised THEN "crashed" ELSE next

CheckKey ==
    /\ pc = "main"
    /\ pc' = IF key_missing(api_key) THEN "aborted" ELSE "quarterly"
    /\ UNCHANGED <<unit_vars, mode, http_requests, stats_log, network_data, main_vars,
                   count_vars, subgraph_vars, dashboard_vars>>

CallQuarterly ==
    /\ pc = "quarterly"
    /\ \E daily \in (IF mode = "main" THEN MainQuarterlyRemotes ELSE {remote_daily}) :
        LET r == fetch_quarterly_arbitrum_data(daily)
        IN  /\ called' = Append(called, "fetch_quarterly_arbitrum_data")
            /\ http_requests' = http_requests + r.requests
            /\ quarterly_data' = IF r.raised THEN quarterly_data ELSE r.value
            /\ pc' = IF mode = "main" THEN after_call(r.raised, "comparison_arbitrum")
                     ELSE IF r.raised THEN "raised" ELSE "returned"
    /\ UNCHANGED <<unit_vars, mode, stats_log, network_data, api_key, report,
                   network_comparison, rewards_metrics, delegation_metrics, count_vars,
                   subgraph_vars, dashboard_vars>>

CallRewards ==
    /\ pc = "rewards"
    /\ \E resp \in (IF mode = "main" THEN StatsResponses ELSE {response_rewards}) :
        LET r == fetch_rewards_metrics(resp)
        IN  /\ called' = Append(called, "fetch_rewards_metrics")
            /\ http_requests' = http_requests + 1
            /\ rewards_metrics' = IF r.raised THEN rewards_metrics ELSE r.value
            /\ pc' = IF mode = "main" THEN after_call(r.raised, "delegation")
                     ELSE IF r.raised THEN "raised" ELSE "returned"
    /\ UNCHANGED <<unit_vars, mode, stats_log, network_data, api_key, report, quarterly_data,
                   network_comparison, delegation_metrics, count_vars, subgraph_vars,
                   dashboard_vars>>

\* In a run of main the remote answers as it likes; when the function is
\* called alone the answers are those fixed at the start.
CallDelegation ==
    /\ pc = "delegation"
    /\ \E resp_del \in (IF mode = "main" THEN MainStakeResponses ELSE {response_del}),
          resp_undel \in (IF mode = "main" THEN MainStakeResponses ELSE {response_undel}) :
        LET r == fetch_delegation_metrics(resp_del, resp_undel)
        IN  /\ called' = Append(called, "fetch_delegation_metrics")
            /\ http_requests' = http_requests + r.requests
            /\ delegation_metrics' = IF r.raised THEN delegation_metrics ELSE r.value
            /\ pc' = IF mode = "main" THEN after_call(r.raised, "call_subgraphs")
                     ELSE IF r.raised THEN "raised" ELSE "returned"
    /\ UNCHANGED <<unit_vars, mode, stats_log, network_data, api_key, report,
                   quarterly_data, network_comparison, rewards_metrics, count_vars,
                   subgraph_vars, dashboard_vars>>

\* The entry of fetch_network_subgraph_counts: its locals, and the list the
\* remote serves during the call.
CallSubgraphCounts ==
    /\ pc = "call_subgraphs"
    /\ called' = Append(called, "fetch_network_subgraph_counts")
    /\ remote_subgraphs' \in SeqUpTo(MainSubgraphItems, MaxMainSubgraphs)
    /\ skip' = 0
    /\ counts' = <<>>
    /\ indexers_by_network' = <<>>
    /\ s_offsets' = <<>>
    /\ s_outcomes' = <<>>
    /\ fetched' = <<>>
    /\ pc' = "subgraphs"
    /\ UNCHANGED <<unit_vars, mode, http_requests, stats_log, network_data, api_key, report,
                   quarterly_data, network_comparison, rewards_metrics,
                   delegation_metrics, count_vars, dashboard_vars>>

\* "if not network_data": an empty list ends the run without a report.
MainCheck ==
    /\ pc = "main_check"
    /\ pc' = IF network_data = <<>> THEN "no_data" ELSE "dashboard"
    /\ UNCHANGED <<unit_vars, mode, http_requests, stats_log, network_data, main_vars,
                   count_vars, subgraph_vars, dashboard_vars>>

Init ==
    /\ IdleUnit
    /\ mode = "main"
    /\ pc = "main"
    /\ api_key \in {None, "", "key"}
    /\ called = <<>>
    /\ http_requests = 0
    /\ report = "none"
    /\ quarterly_data = <<>>
    /\ network_comparison = [arbitrum |-> <<>>, ethereum |-> <<>>]
    /\ rewards_metrics = <<0, 0, 0>>
    /\ delegation_metrics = <<0, 0, 0, <<>>>>
    /\ network_data = <<>>
    /\ IdleCount /\ IdleSubgraph /\ IdleDashboard

Next ==
    \/ CheckKey
    \/ CallQuarterly
    \/ FetchNetworkStats
    \/ CountRequest
    \/ CallRewards
    \/ CallDelegation
    \/ CallSubgraphCounts
    \/ SubgraphRequest
    \/ MainCheck
    \/ GenerateDashboard

Spec == Init /\ [][Next]_vars

-----------------------------------------------------------------------------
(* fetch_network_subgraph_counts called alone, on every backing list of at *)
(* most MaxSubgraphs records.                                              *)

InitSubgraph ==
    /\ IdleUnit
    /\ mode = "subgraph"
    /\ pc = "subgraphs"
    /\ http_requests = 0
    /\ network_data = <<>>
    /\ IdleMain /\ IdleCount /\ IdleDashboard
    /\ remote_subgraphs \in SeqUpTo(SubgraphItems, MaxSubgraphs)
    /\ skip = 0
    /\ counts = <<>>
    /\ indexers_by_network = <<>>
    /\ s_offsets = <<>>
    /\ s_outcomes = <<>>
    /\ fetched = <<>>

SpecSubgraph == InitSubgraph /\ [][SubgraphRequest]_vars

-----------------------------------------------------------------------------
(* generate_html_dashboard called alone, on lists of up to MaxNetworks     *)
(* entries: every entry counts base subgraphs but two picked ones.         *)

DashboardInput(n, hi, mid, shape) ==
    [i \in 1..n |->
        [network_name |-> ToString(i),
         subgraph_count |->
             IF i = hi THEN 50
             ELSE IF i = mid THEN 7
             ELSE IF shape = "flat" THEN 3
             ELSE IF shape = "rising" THEN i
             ELSE IF shape = "falling" THEN n + 1 - i
             ELSE 0,
         unique_indexer_count |-> 0]]

DashboardInputs ==
    {DashboardInput(n, hi, mid, shape) :
        n \in 0..MaxNetworks, hi \in {0, 1, 2, MaxNetworks - 1, MaxNetworks},
        mid \in {0, 1, TopN, TopN + 1}, shape \in {"flat", "rising", "falling", "zero"}}

InitDashboard ==
    /\ IdleUnit
    /\ mode = "dashboard"
    /\ pc = "dashboard"
    /\ http_requests = 0
    /\ network_data \in DashboardInputs
    /\ IdleMain /\ IdleCount /\ IdleSubgraph /\ IdleDashboard

SpecDashboard == InitDashboard /\ [][GenerateDashboard]_vars

-----------------------------------------------------------------------------
(* fetch_delegation_metrics called alone, on every pair of answers of at   *)
(* most MaxStakeEvents records each.                                       *)

\* Amounts that are whole multiples of the scale factor, two that are not, and
\* a record without its tokens key.
StakeRecords ==
    {stake_record(5000 * WeiPerGRT, 100, "0x1"),
     stake_record(3000 * WeiPerGRT, 200, "0x2"),
     stake_record(1000 * WeiPerGRT, 150, "0x3"),
     stake_record(WeiPerGRT + WeiPerGRT \div 2, 200, "0x4"),
     stake_record(WeiPerGRT \div 2 + 1, 100, "0x5"),
     [stake_record(WeiPerGRT, 150, "0x6") EXCEPT !.complete = FALSE]}

StakeResponses ==
    {[outcome |-> "exc", records |-> <<>>], [outcome |-> "non200", records |-> <<>>]}
    \cup {[outcome |-> "ok", records |-> r] : r \in SeqUpTo(StakeRecords, MaxStakeEvents)}

InitDelegation ==
    /\ quarters = configured_quarters
    /\ response_stats = None
    /\ response_rewards = None
    /\ mode = "delegation"
    /\ pc = "delegation"
    /\ http_requests = 0
    /\ network_data = <<>>
    /\ IdleMain /\ IdleCount /\ IdleSubgraph /\ IdleDashboard
    /\ response_del \in StakeResponses
    /\ response_undel \in StakeResponses
    /\ remote_daily = None
    /\ arg_timestamp = 0
    /\ day_number = 0

SpecDelegation == InitDelegation /\ [][CallDelegation]_vars

-----------------------------------------------------------------------------
(* fetch_quarterly_arbitrum_data called alone: every set of boundary days  *)
(* may be missing, and the counters come in several shapes.                *)

IsStartDay(day) == \E i \in 1..Len(quarters) : quarters[i].start_day = day

\* The counters of a day.  "growing": cumulative counters whose quarterly
\* differences are no whole numbers of GRT; "scenario": total 100 at the start
\* of a quarter and 150 at its end; "shrinking": counters that decrease;
\* "mixed": total grows, indexer share shrinks, delegator share stands still.
unit_row(shape, day) ==
    LET up == (day - 1200) * WeiPerGRT
               + (IF IsStartDay(day) THEN WeiPerGRT - WeiPerGRT \div 4
                  ELSE WeiPerGRT \div 2)
        down == (2000 - day) * WeiPerGRT
                 + (IF IsStartDay(day) THEN WeiPerGRT \div 2 ELSE 0)
    IN  IF shape = "growing"
        THEN [complete |-> TRUE, totalIndexingRewards |-> 3 * up,
              totalIndexingIndexerRewards |-> up,
              totalIndexingDelegatorRewards |-> 2 * up]
        ELSE IF shape = "scenario"
        THEN [complete |-> TRUE,
              totalIndexingRewards |->
                  IF IsStartDay(day) THEN 100 * WeiPerGRT ELSE 150 * WeiPerGRT,
              totalIndexingIndexerRewards |->
                  IF IsStartDay(day) THEN 40 * WeiPerGRT ELSE 60 * WeiPerGRT,
              totalIndexingDelegatorRewards |->
                  IF IsStartDay(day) THEN 60 * WeiPerGRT ELSE 90 * WeiPerGRT]
        ELSE IF shape = "shrinking"
        THEN [complete |-> TRUE, totalIndexingRewards |-> 3 * down,
              totalIndexingIndexerRewards |-> down,
              totalIndexingDelegatorRewards |-> 2 * down]
        ELSE [complete |-> TRUE, totalIndexingRewards |-> up,
              totalIndexingIndexerRewards |-> down,
              totalIndexingDelegatorRewards |-> 7 * WeiPerGRT]

\* The ways a request for a day leaves the loop without a usable snapshot: the
\* request raises, the status is not 200, the list is empty, or the row lacks
\* a counter.
failed_response(failure) ==
    IF failure = "bad_row"
    THEN [outcome |-> "ok", has_data |-> TRUE,
          row |-> [NoDailyData EXCEPT !.complete = FALSE]]
    ELSE [outcome |-> IF failure = "empty" THEN "ok" ELSE failure,
          has_data |-> FALSE, row |-> NoDailyData]

unit_remote(missing, shape, failure) ==
    [day \in BoundaryDays |->
        IF day \in missing THEN failed_response(failure)
        ELSE [outcome |-> "ok", has_data |-> TRUE, row |-> unit_row(shape, day)]]

QuarterlyRemotes ==
    {unit_remote(missing, sf[1], sf[2]) :
        missing \in SUBSET BoundaryDays,
        sf \in {<<"growing", "exc">>, <<"growing", "non200">>, <<"growing", "empty">>,
                <<"growing", "bad_row">>, <<"scenario", "empty">>,
                <<"shrinking", "non200">>, <<"mixed", "exc">>}}

InitQuarterly ==
    /\ quarters = configured_quarters
    /\ response_stats = None
    /\ response_rewards = None
    /\ mode = "quarterly"
    /\ pc = "quarterly"
    /\ http_requests = 0
    /\ network_data = <<>>
    /\ IdleMain /\ IdleCount /\ IdleSubgraph /\ IdleDashboard
    /\ response_del = None
    /\ response_undel = None
    /\ remote_daily \in QuarterlyRemotes
    /\ arg_timestamp = 0
    /\ day_number = 0

SpecQuarterly == InitQuarterly /\ [][CallQuarterly]_vars

-----------------------------------------------------------------------------
(* timestamp_to_day_number called alone, on timestamps up to MaxDays days  *)
(* before and after the genesis epoch and on the quarter boundaries.       *)

CallTimestampToDayNumber ==
    /\ pc = "day_number"
    /\ day_number' = timestamp_to_day_number(arg_timestamp)
    /\ pc' = "returned"
    /\ UNCHANGED <<mode, http_requests, stats_log, network_data, main_vars, count_vars,
                   subgraph_vars, dashboard_vars, response_del, response_undel,
                   remote_daily, arg_timestamp, quarters, response_stats,
                   response_rewards>>

DayTimestamps ==
    {genesis_timestamp + k * seconds_per_day + offset :
        k \in (-MaxDays)..MaxDays, offset \in {0, 1, seconds_per_day \div 2,
                                                seconds_per_day - 1}}
    \cup {ts_2024_04, ts_2024_07, ts_2024_10, ts_2025_01, ts_2025_04, ts_2025_07,
          ts_2025_10}

InitDayNumber ==
    /\ quarters = configured_quarters
    /\ response_stats = None
    /\ response_rewards = None
    /\ mode = "day_number"
    /\ pc = "day_number"
    /\ http_requests = 0
    /\ network_data = <<>>
    /\ IdleMain /\ IdleCount /\ IdleSubgraph /\ IdleDashboard
    /\ response_del = None
    /\ response_undel = None
    /\ remote_daily = None
    /\ arg_timestamp \in DayTimestamps
    /\ day_number = 0

SpecDayNumber == InitDayNumber /\ [][CallTimestampToDayNumber]_vars

-----------------------------------------------------------------------------
(* count_active_delegators called alone, on every number of delegators up  *)
(* to MaxCountDelegators, the remote ordering them anew for every page.    *)

InitCount ==
    /\ IdleUnit
    /\ mode = "count"
    /\ pc = "count"
    /\ http_requests = 0
    /\ network_data = <<>>
    /\ IdleMain /\ IdleSubgraph /\ IdleDashboard
    /\ stats_log = <<>>
    /\ c_network = "arbitrum"
    /\ stats_data = NoGraphNetwork
    /\ \E n \in 0..MaxCountDelegators : remote_delegators = [i \in 1..n |-> i]
    /\ c_skip = 0
    /\ active_delegators_count = 0
    /\ c_offsets = <<>>
    /\ c_outcomes = <<>>
    /\ received_delegators = <<>>

SpecCount == InitCount /\ [][CountRequest]_vars

-----------------------------------------------------------------------------
-----------------------------------------------------------------------------
(* fetch_network_comparison_stats and fetch_rewards_metrics called one     *)
(* after the other, as main does, on every combination of answers to the   *)
(* three graphNetwork queries.                                             *)

\* The answers to the query of fetch_rewards_metrics: those of StatsResponses
\* and records whose counters are zero, below one GRT, or whole GRT.
RewardsResponses ==
    StatsResponses
    \cup {[outcome |-> "ok", has_data |-> TRUE,
           graphNetwork |-> [totalIndexingRewards |-> i + d,
                             totalIndexingIndexerRewards |-> i,
                             totalIndexingDelegatorRewards |-> d,
                             delegatorCount |-> 0]] :
             i \in {0, WeiPerGRT - 1, 2 * WeiPerGRT}, d \in {0, 1, WeiPerGRT}}

InitSnapshots ==
    /\ quarters = configured_quarters
    /\ mode = "snapshots"
    /\ pc = "comparison_arbitrum"
    /\ http_requests = 0
    /\ network_data = <<>>
    /\ IdleMain /\ IdleCount /\ IdleSubgraph /\ IdleDashboard
    /\ response_del = None
    /\ response_undel = None
    /\ remote_daily = None
    /\ arg_timestamp = 0
    /\ day_number = 0
    /\ response_stats \in [{"arbitrum", "ethereum"} -> StatsResponses]
    /\ response_rewards \in RewardsResponses

SpecSnapshots ==
    InitSnapshots /\ [][FetchNetworkStats \/ CountRequest \/ CallRewards]_vars

-----------------------------------------------------------------------------
(* Properties.                                                             *)

Terminal == {"aborted", "no_data", "crashed", "done", "returned", "raised"}

AllOk(outcomes) == \A i \in 1..Len(outcomes) : outcomes[i] = "ok"

AsSet(s) == {s[i] : i \in 1..Len(s)}

\* ceil(n / size) + 1
RequestBound(n, size) == (n + size - 1) \div size + 1

\* A record that names a network.
Qualifies(item) == item.has_deployment /\ item.has_manifest /\ item.network # None

\* The positions of the records of a network.
RecordsOf(records, n) ==
    {i \in 1..Len(records) : Qualifies(records[i]) /\ records[i].network = n}

\* The indexers with an allocation on some record of a network.
IndexersOf(records, n) ==
    UNION {AsSet(records[i].allocations) \ {None} : i \in RecordsOf(records, n)}

\* The metrics of a list of records, counted record by record.
ExpectedMetrics(records) ==
    {[network_name |-> n,
      subgraph_count |-> Cardinality(RecordsOf(records, n)),
      unique_indexer_count |-> Cardinality(IndexersOf(records, n))] :
        n \in {m \in Networks : RecordsOf(records, m) # {}}}

\* C1: served with success responses from a finite backing list of N records,
\* the subgraph loop and the delegator loop each issue at most
\* ceil(N / page size) + 1 requests, and have ended once that many were issued.
C1_PaginationTerminates ==
    /\ AllOk(s_outcomes) =>
        /\ Len(s_offsets) <= RequestBound(Len(remote_subgraphs), page_size)
        /\ Len(s_offsets) = RequestBound(Len(remote_subgraphs), page_size)
               => pc # "subgraphs"
    /\ AllOk(c_outcomes) =>
        /\ Len(c_offsets) <= RequestBound(Len(remote_delegators), batch_size)
        /\ Len(c_offsets) = RequestBound(Len(remote_delegators), batch_size)
               => pc # "count"

\* Both loops have run over several pages of success responses and ended.
C1_Witness ==
    /\ pc = "main_check"
    /\ AllOk(s_outcomes) /\ AllOk(c_outcomes)
    /\ Len(remote_subgraphs) > page_size
    /\ Len(s_offsets) = RequestBound(Len(remote_subgraphs), page_size)
    /\ Len(remote_delegators) >= batch_size
    /\ Len(c_offsets) >= 2
    /\ active_delegators_count = Len(remote_delegators)

\* C2: once the request for a page of subgraphs is answered with a status
\* other than 200, it is the last request, every offset was requested once,
\* the function has returned, and the list returned holds the metrics of the
\* pages before it.
C2_NonSuccessHaltsWithPartialResult ==
    \A k \in 1..Len(s_outcomes) :
        s_outcomes[k] = "non200" =>
            /\ k = Len(s_outcomes)
            /\ pc = "returned"
            /\ \A i \in 1..Len(s_offsets) : s_offsets[i] = (i - 1) * page_size
            /\ Len(network_data) = Cardinality(AsSet(network_data))
            /\ AsSet(network_data) =
                   ExpectedMetrics(SubSeq(remote_subgraphs, 1,
                       Min((k - 1) * page_size, Len(remote_subgraphs))))

\* The second page fails after a first page that gave metrics, records being left.
C2_Witness ==
    /\ pc = "returned"
    /\ s_outcomes = <<"ok", "non200">>
    /\ Len(remote_subgraphs) > page_size
    /\ network_data # <<>>

\* C3: no transport failure makes an exception leave one of the five
\* aggregators: main, which catches none, never ends on one.
C3_NoExceptionLeavesAnAggregator == pc # "crashed"

\* C4: with the credential present, a run of main that has ended has written
\* the report.
C4_RunWithKeyWritesReport ==
    (api_key = "key" /\ pc \in Terminal) => report = "written"

\* C5: with the credential absent or empty, main calls no aggregator, issues
\* no request and writes no report.
C5_MissingKeyAborts ==
    api_key \in {None, ""} =>
        /\ pc \in {"main", "aborted"}
        /\ called = <<>>
        /\ http_requests = 0
        /\ stats_log = <<>> /\ c_offsets = <<>> /\ s_offsets = <<>>
        /\ report = "none"

C5_Witness == pc = "aborted" /\ api_key = "" /\ http_requests = 0

AggregatorOrder ==
    <<"fetch_quarterly_arbitrum_data", "fetch_network_comparison_stats",
      "fetch_rewards_metrics", "fetch_delegation_metrics",
      "fetch_network_subgraph_counts">>

\* The number of aggregators invoked when main is at a place.
InvokedAt(place) ==
    IF place \in {"main", "quarterly", "aborted"} THEN 0
    ELSE IF place = "comparison_arbitrum" THEN 1
    ELSE IF place \in {"count", "comparison_ethereum", "rewards"} THEN 2
    ELSE IF place = "delegation" THEN 3
    ELSE IF place = "call_subgraphs" THEN 4
    ELSE 5

\* The places of main from the first call of an aggregator to the last.
PlacesBeforeLastCall ==
    {"quarterly", "comparison_arbitrum", "count", "comparison_ethereum", "rewards",
     "delegation", "call_subgraphs"}

\* C6: with the credential present, whatever the remote answered so far, main
\* has invoked the aggregators in their order up to the place it is at, has a
\* step to take at every place before the last one is invoked, and
\* fetch_network_comparison_stats has requested Arbitrum and then Ethereum by
\* the time it returns.
C6_FailuresDoNotHaltOthers ==
    api_key = "key" =>
        /\ called = SubSeq(AggregatorOrder, 1, InvokedAt(pc))
        /\ pc \in Terminal => called = AggregatorOrder
        /\ pc \in PlacesBeforeLastCall => ENABLED Next
        /\ Len(called) >= 3 => stats_log = <<"arbitrum", "ethereum">>
        /\ pc = "comparison_ethereum" => stats_log = <<"arbitrum">>

\* Every earlier aggregator met a failure and the last one was still invoked.
C6_Witness ==
    /\ pc = "subgraphs"
    /\ called = AggregatorOrder
    /\ stats_log = <<"arbitrum", "ethereum">>
    /\ network_comparison = [arbitrum |-> <<>>, ethereum |-> <<>>]
    /\ rewards_metrics = <<0, 0, 0>>
    /\ delegation_metrics = <<0, 0, 0, <<>>>>
    /\ \E i \in 1..Len(quarterly_data) : quarterly_data[i] \in AsSet(fallback_data)

\* C7: after any pages, the count of each network is the number of records
\* received that name it, its indexer set holds the indexers of those records
\* only, and a record without manifest or network adds no key.
C7_CountsMatchRecords ==
    /\ \A n \in Networks :
        /\ dict_get(counts, n, 0) = Cardinality(RecordsOf(fetched, n))
        /\ dict_get(indexers_by_network, n, {}) = IndexersOf(fetched, n)
    /\ \A i \in 1..Len(counts) : counts[i][1] \in Networks /\ counts[i][2] >= 1
    /\ \A i, j \in 1..Len(counts) : counts[i][1] = counts[j][1] => i = j
    /\ \A i \in 1..Len(indexers_by_network) : dict_has(counts, indexers_by_network[i][1])

\* Two pages were processed, with a record that has no manifest among them.
C7_Witness ==
    /\ Len(fetched) > page_size
    /\ \E i \in 1..Len(fetched) :
        ~Qualifies(fetched[i]) /\ fetched[i].allocations = <<"A">>
    /\ dict_get(counts, "mainnet", 0) = 2
    /\ "A" \notin dict_get(indexers_by_network, "mainnet", {})
    /\ ~dict_has(counts, "base")

\* The lists that hold the records of s in another order.
Reorderings(s) == {[i \in 1..Len(s) |-> s[p[i]]] : p \in Permutations(1..Len(s))}

\* The lists that hold the records of s with some of them repeated.
Duplications(s) ==
    {s \o <<s[i]>> : i \in 1..Len(s)} \cup {<<s[i]>> \o s : i \in 1..Len(s)}
    \cup {s \o s}

\* The unique_indexer_count reported for each network.
IndexerCounts(result) ==
    {<<result[i].network_name, result[i].unique_indexer_count>> : i \in 1..Len(result)}

\* The result of the loop over one list of records.
ResultOn(records) ==
    LET st == process_batch(records, [counts |-> <<>>, indexers_by_network |-> <<>>])
    IN  build_result(st.counts, st.indexers_by_network)

\* C8: the unique_indexer_count returned for every network is the one the
\* records received give in any other order and with any of them repeated,
\* and counts an indexer of several records or allocations once.
C8_IndexerCountIgnoresOrderAndDuplicates ==
    pc = "returned" =>
        /\ \A other \in Reorderings(fetched) \cup Duplications(fetched) :
            IndexerCounts(ResultOn(other)) = IndexerCounts(network_data)
        /\ \A i \in 1..Len(network_data) :
            network_data[i].unique_indexer_count =
                Cardinality(IndexersOf(fetched, network_data[i].network_name))

\* An indexer has allocations on two records of a network, another on one.
C8_Witness ==
    /\ pc = "returned"
    /\ \E i, j \in 1..Len(fetched) :
        /\ i < j
        /\ fetched[i].network = "mainnet" /\ fetched[j].network = "mainnet"
        /\ fetched[i].allocations = <<"A", "B">>
        /\ fetched[j].allocations = <<"A", "A">>
    /\ <<"mainnet", 2>> \in IndexerCounts(network_data)

ScenarioRecord(n, allocations) ==
    [has_deployment |-> TRUE, has_manifest |-> TRUE, network |-> n,
     allocations |-> allocations]

\* The records [(mainnet, A), (mainnet, A), (base, B)].
Scenario ==
    <<ScenarioRecord("mainnet", <<"A">>), ScenarioRecord("mainnet", <<"A">>),
      ScenarioRecord("base", <<"B">>)>>

\* C9: the list returned has one entry per network among the records received,
\* each with the size of the network's indexer set, a natural number that is 0
\* when the records of the network have no indexer; the records [(mainnet, A),
\* (mainnet, A), (base, B)] give [{mainnet, 2, 1}, {base, 1, 1}], total 3.
C9_OneMetricPerNetwork ==
    pc = "returned" =>
        /\ {network_data[i].network_name : i \in 1..Len(network_data)} =
               {n \in Networks : RecordsOf(fetched, n) # {}}
        /\ \A i, j \in 1..Len(network_data) :
            network_data[i].network_name = network_data[j].network_name => i = j
        /\ \A i \in 1..Len(network_data) :
            LET n == network_data[i].network_name
            IN  /\ network_data[i].unique_indexer_count \in Nat
                /\ network_data[i].unique_indexer_count =
                       Cardinality(dict_get(indexers_by_network, n, {}))
                /\ network_data[i].subgraph_count = Cardinality(RecordsOf(fetched, n))
                /\ IndexersOf(fetched, n) = {} =>
                       network_data[i].unique_indexer_count = 0
        /\ (fetched = Scenario) =>
            /\ network_data =
                   <<[network_name |-> "mainnet", subgraph_count |-> 2,
                      unique_indexer_count |-> 1],
                     [network_name |-> "base", subgraph_count |-> 1,
                      unique_indexer_count |-> 1]>>
            /\ sum(subgraph_counts(network_data)) = 3

\* The scenario's three records were all received.
C9_Witness ==
    /\ pc = "returned"
    /\ fetched = Scenario
    /\ Len(network_data) = 2

\* The number of times x occurs in s.
Occurrences(s, x) == Cardinality({i \in 1..Len(s) : s[i] = x})

\* The sum of the subgraph counts at a set of positions of s.
RECURSIVE CountsAt(_, _)
CountsAt(s, positions) ==
    IF positions = {} THEN 0
    ELSE LET i == CHOOSE p \in positions : TRUE
         IN  s[i].subgraph_count + CountsAt(s, positions \ {i})

\* C10: the top subset holds min(20, n) entries of the list, in descending
\* order of subgraph_count, no entry left out counting more than one kept; the
\* top total sums the subset, the grand total sums the whole list, and the top
\* total is at most the grand total.
C10_TopSubsetAndTotals ==
    pc = "done" =>
        /\ Len(sorted_data) = Min(20, Len(data))
        /\ \A i \in 1..Len(sorted_data) - 1 :
            sorted_data[i].subgraph_count >= sorted_data[i + 1].subgraph_count
        /\ \A x \in AsSet(sorted_data) : Occurrences(sorted_data, x) <= Occurrences(data, x)
        /\ \A x \in AsSet(data) :
            Occurrences(sorted_data, x) < Occurrences(data, x) =>
                \A i \in 1..Len(sorted_data) :
                    sorted_data[i].subgraph_count >= x.subgraph_count
        /\ total_top_20 = CountsAt(sorted_data, 1..Len(sorted_data))
        /\ total_all_networks = CountsAt(data, 1..Len(data))
        /\ total_top_20 <= total_all_networks

\* More than 20 networks, the largest of them last in the list.
C10_Witness ==
    /\ pc = "done"
    /\ Len(data) > 20
    /\ total_top_20 < total_all_networks
    /\ sorted_data[1] = data[Len(data)]
    /\ sorted_data[1].subgraph_count > sorted_data[2].subgraph_count

\* a + c
nat_add_small(a, c) == nat_strip(nat_mul_small(a, 1, c))

\* percentage * grand_total and top20_total * 100 as natural numbers over the
\* unit 2^percentage.value.exp; a percentage is below 128, so exp is negative.
ScaledProduct ==
    nat_strip(nat_mul_small(percentage.value.significand, total_all_networks, 0))
ScaledTop == nat_shift_left(nat_of(total_top_20 * 100), -percentage.value.exp)

\* C11 as stated: percentage * grand_total equals top20_total * 100 whenever
\* grand_total > 0, and percentage is 0, no division performed, when
\* grand_total is 0.
C11_PercentageIdentity ==
    /\ pc # "raised"
    /\ pc = "done" =>
        IF total_all_networks > 0
        THEN ScaledProduct = ScaledTop
        ELSE percentage.value = float_zero

\* C11, amended: when grand_total > 0 percentage is a float within two units
\* in its last place of top20_total * 100 / grand_total, that is
\* |percentage * grand_total - top20_total * 100| <= 2 * grand_total units;
\* when grand_total is 0 no division is performed and percentage is the int 0.
C11_PercentageWithinRounding ==
    /\ pc # "raised"
    /\ pc = "done" =>
        IF total_all_networks > 0
        THEN /\ percentage.type = "float"
             /\ nat_leq(ScaledProduct, nat_add_small(ScaledTop, 2 * total_all_networks))
             /\ nat_leq(ScaledTop, nat_add_small(ScaledProduct, 2 * total_all_networks))
        ELSE percentage = [type |-> "int", value |-> float_zero]

\* More than 20 networks, and a percentage that the float product with the
\* grand total does not bring back to top20_total * 100.
C11_Witness ==
    /\ pc = "done"
    /\ Len(data) > 20
    /\ 0 < total_top_20 /\ total_top_20 < total_all_networks
    /\ float_mul(percentage.value, total_all_networks) # float_of_int(total_top_20 * 100)

-----------------------------------------------------------------------------
(* fetch_delegation_metrics: what the remote sent and what came back.      *)

\* Whether an answer is a 200 whose payload parsed.
Status200(resp) == resp.outcome = "ok"

\* Whether the processing of a 200 answer meets a record without a key.
LacksKey(resp) == Status200(resp) /\ \E i \in 1..Len(resp.records) : ~resp.records[i].complete

\* Whether the call ended in its except clause: a request raised, or a record
\* lacked a key; the undelegation request is only sent if the delegation
\* stream went through.
DelegationStreamRaised == response_del.outcome = "exc" \/ LacksKey(response_del)
ExceptionRaised ==
    \/ DelegationStreamRaised
    \/ response_undel.outcome = "exc"
    \/ LacksKey(response_undel)

\* The records of a stream the function received with status 200.
ReceivedDelegations ==
    IF Status200(response_del) THEN response_del.records ELSE <<>>
ReceivedUndelegations ==
    IF ~DelegationStreamRaised /\ Status200(response_undel) THEN response_undel.records
    ELSE <<>>

\* The event a record is turned into.
EventOf(record, type) ==
    [type |-> type, tokens |-> record.tokens \div WeiPerGRT,
     delegator |-> record.delegator, indexer |-> record.indexer,
     timestamp |-> record.blockTimestamp, tx_hash |-> record.transactionHash]

EventsOf(records, type) == [i \in 1..Len(records) |-> EventOf(records[i], type)]

\* Whether two sequences hold the same elements the same number of times.
SameBag(s, t) ==
    /\ Len(s) = Len(t)
    /\ \A x \in AsSet(s) \cup AsSet(t) : Occurrences(s, x) = Occurrences(t, x)

NewestFirst(events) ==
    \A i \in 1..Len(events) - 1 : events[i].timestamp >= events[i + 1].timestamp

\* C12: on every return path net = total_delegated - total_undelegated, with
\* its sign: negative when undelegations exceed delegations, never clamped.
C12_NetIsDifference ==
    pc = "returned" =>
        /\ delegation_metrics[3] = delegation_metrics[1] - delegation_metrics[2]
        /\ delegation_metrics[1] < delegation_metrics[2] => delegation_metrics[3] < 0

\* Both streams answered, the undelegations larger than the delegations.
C12_Witness ==
    /\ pc = "returned"
    /\ ~ExceptionRaised
    /\ Status200(response_del) /\ Status200(response_undel)
    /\ delegation_metrics[1] > 0
    /\ delegation_metrics[3] < 0

\* C13 as stated: the event list is the merge of the records of every stream
\* that was fetched with success, one event per record, none lost or added,
\* and is sorted by timestamp descending (read for records that have all
\* their keys).
C13_EventsMergeFetchedStreams ==
    (pc = "returned" /\ ~LacksKey(response_del) /\ ~LacksKey(response_undel)) =>
        /\ SameBag(delegation_metrics[4],
                   EventsOf(ReceivedDelegations, "delegation")
                   \o EventsOf(ReceivedUndelegations, "undelegation"))
        /\ NewestFirst(delegation_metrics[4])

\* C13, amended: when the call raises no exception the event list is the
\* merge of the records of every stream answered with status 200, one event
\* per record, sorted by timestamp descending; when an exception is raised
\* anywhere in the call the list is empty, whatever was fetched before.
C13_EventsMergeUnlessRaised ==
    pc = "returned" =>
        /\ ~ExceptionRaised =>
              SameBag(delegation_metrics[4],
                      EventsOf(ReceivedDelegations, "delegation")
                      \o EventsOf(ReceivedUndelegations, "undelegation"))
        /\ ExceptionRaised => delegation_metrics[4] = <<>>
        /\ NewestFirst(delegation_metrics[4])

\* Both streams answered, and the sort moved an undelegation ahead of a
\* delegation and an older delegation behind a newer one.
C13_Witness ==
    /\ pc = "returned"
    /\ ~ExceptionRaised
    /\ Len(response_del.records) = 2 /\ Len(response_undel.records) = 1
    /\ response_del.records[1].blockTimestamp < response_del.records[2].blockTimestamp
    /\ Len(delegation_metrics[4]) = 3
    /\ delegation_metrics[4][2].type = "undelegation"
    /\ delegation_metrics[4][1].timestamp > delegation_metrics[4][2].timestamp
    /\ delegation_metrics[4][2].timestamp > delegation_metrics[4][3].timestamp

\* The raw amounts of a stream.
RawAmounts(records) == [i \in 1..Len(records) |-> records[i].tokens]

\* The scenario of the specification: delegations of 5000 and 3000 GRT at 100
\* and 200, an undelegation of 1000 GRT at 150.
ScenarioDelegations ==
    << stake_record(5000 * WeiPerGRT, 100, "0x1"), stake_record(3000 * WeiPerGRT, 200, "0x2") >>
ScenarioUndelegations == << stake_record(1000 * WeiPerGRT, 150, "0x3") >>

\* C14: when the call returns its computed tuple, each stream's total is the
\* truncated quotient of the sum of the stream's raw amounts (sum first, then
\* divide), each event's amount is the truncated quotient of its own raw
\* amount, and the scenario gives 8000, 1000 and 7000.
C14_SumThenDivide ==
    (pc = "returned" /\ ~ExceptionRaised) =>
        /\ delegation_metrics[1] = sum(RawAmounts(ReceivedDelegations)) \div WeiPerGRT
        /\ delegation_metrics[2] = sum(RawAmounts(ReceivedUndelegations)) \div WeiPerGRT
        /\ \A i \in 1..Len(delegation_metrics[4]) :
              LET e == delegation_metrics[4][i]
                  stream == IF e.type = "delegation" THEN ReceivedDelegations
                            ELSE ReceivedUndelegations
              IN  \E j \in 1..Len(stream) :
                      /\ stream[j].transactionHash = e.tx_hash
                      /\ e.tokens = stream[j].tokens \div WeiPerGRT
        /\ (/\ response_del = [outcome |-> "ok", records |-> ScenarioDelegations]
            /\ response_undel = [outcome |-> "ok", records |-> ScenarioUndelegations])
           => /\ delegation_metrics[1] = 8000
              /\ delegation_metrics[2] = 1000
              /\ delegation_metrics[3] = 7000
              /\ [i \in 1..3 |-> delegation_metrics[4][i].timestamp] = <<200, 150, 100>>

\* Two delegations that are no multiples of the scale factor: the total is
\* larger than the sum of the displayed amounts.
C14_Witness ==
    /\ pc = "returned"
    /\ ~ExceptionRaised
    /\ Len(ReceivedDelegations) = 2
    /\ delegation_metrics[1] = 2
    /\ delegation_metrics[4][1].tokens + delegation_metrics[4][2].tokens = 1

\* The scenario of the specification, run.
C14_ScenarioReached ==
    /\ pc = "returned"
    /\ response_del = [outcome |-> "ok", records |-> ScenarioDelegations]
    /\ response_undel = [outcome |-> "ok", records |-> ScenarioUndelegations]

\* The records of an answer with status 200 that hold every key.
KeptRecords(resp) ==
    IF Status200(resp) THEN SelectSeq(resp.records, LAMBDA r : r.complete) ELSE <<>>

\* C24: in fetch_delegation_metrics a record that lacks a key is left out
\* and the others are still aggregated: when no request raises, each total
\* and the event list are those of the records that hold every key.
C24_RecordLackingKeySkipped ==
    (pc = "returned" /\ response_del.outcome # "exc" /\ response_undel.outcome # "exc") =>
        /\ delegation_metrics[1] = sum(RawAmounts(KeptRecords(response_del))) \div WeiPerGRT
        /\ delegation_metrics[2] = sum(RawAmounts(KeptRecords(response_undel))) \div WeiPerGRT
        /\ SameBag(delegation_metrics[4],
                   EventsOf(KeptRecords(response_del), "delegation")
                   \o EventsOf(KeptRecords(response_undel), "undelegation"))

\* The events of one type in an event list.
EventsOfType(events, type) == SelectSeq(events, LAMBDA e : e.type = type)

\* C27: in fetch_delegation_metrics a status other than 200 on one stream
\* makes that stream's total 0 and gives no event of its type, while the
\* other stream is requested and aggregated; an exception anywhere in the
\* call, also in the undelegation request after the delegations were
\* fetched, makes the function return (0, 0, 0, []).
C27_StreamsFailDifferently ==
    pc = "returned" =>
        /\ ExceptionRaised => delegation_metrics = <<0, 0, 0, <<>>>>
        /\ DelegationStreamRaised => http_requests = 1
        /\ ~DelegationStreamRaised => http_requests = 2
        /\ (~ExceptionRaised /\ response_del.outcome = "non200") =>
            /\ delegation_metrics[1] = 0
            /\ EventsOfType(delegation_metrics[4], "delegation") = <<>>
            /\ delegation_metrics[2] = stake_total(ReceivedUndelegations)
            /\ SameBag(delegation_metrics[4],
                       EventsOf(ReceivedUndelegations, "undelegation"))
        /\ (~ExceptionRaised /\ response_undel.outcome = "non200") =>
            /\ delegation_metrics[2] = 0
            /\ EventsOfType(delegation_metrics[4], "undelegation") = <<>>
            /\ delegation_metrics[1] = stake_total(ReceivedDelegations)
            /\ SameBag(delegation_metrics[4],
                       EventsOf(ReceivedDelegations, "delegation"))

\* The delegation query was answered with another status than 200 and the
\* undelegations were still fetched and aggregated.
C27_Witness ==
    /\ pc = "returned"
    /\ response_del.outcome = "non200"
    /\ Status200(response_undel) /\ ~LacksKey(response_undel)
    /\ Len(response_undel.records) = 2
    /\ delegation_metrics[1] = 0
    /\ delegation_metrics[2] > 0
    /\ delegation_metrics[3] < 0
    /\ Len(delegation_metrics[4]) = 2

\* The undelegation request raised after the delegations were fetched: all
\* is discarded.
C27_DiscardReached ==
    /\ pc = "returned"
    /\ Status200(response_del) /\ ~LacksKey(response_del)
    /\ Len(response_del.records) = 2
    /\ response_undel.outcome = "exc"
    /\ delegation_metrics = <<0, 0, 0, <<>>>>

\* The sum of the amounts displayed for the events of one type.
DisplayedSum(type) ==
    LET events == EventsOfType(delegation_metrics[4], type)
    IN  sum([i \in 1..Len(events) |-> events[i].tokens])

\* The total of a stream minus the sum of the amounts of its events.
TruncationGap(type) ==
    (IF type = "delegation" THEN delegation_metrics[1] ELSE delegation_metrics[2])
    - DisplayedSum(type)

\* The number of events of a stream.
EventCount(type) == Len(EventsOfType(delegation_metrics[4], type))

\* Whether every raw amount of a stream is a whole number of GRT.
WholeAmounts(records) == \A i \in 1..Len(records) : records[i].tokens % WeiPerGRT = 0

StreamTypes == {"delegation", "undelegation"}

\* C28: for each stream of n events, 0 <= total - sum of the displayed
\* amounts < n, and the two are equal when every raw amount is a multiple
\* of 10^18.
C28_TruncationGapBelowCount ==
    pc = "returned" =>
        /\ \A type \in StreamTypes :
            /\ 0 <= TruncationGap(type)
            /\ TruncationGap(type) < EventCount(type)
        /\ (~ExceptionRaised /\ WholeAmounts(ReceivedDelegations))
               => TruncationGap("delegation") = 0
        /\ (~ExceptionRaised /\ WholeAmounts(ReceivedUndelegations))
               => TruncationGap("undelegation") = 0

\* C28, amended: for each stream of n events, 0 <= total - sum of the
\* displayed amounts <= n - 1 when n > 0, the difference is 0 when the stream
\* has no event, and the two are equal when every raw amount is a multiple
\* of 10^18.
C28_TruncationGapBounded ==
    pc = "returned" =>
        /\ \A type \in StreamTypes :
            /\ 0 <= TruncationGap(type)
            /\ EventCount(type) > 0 => TruncationGap(type) <= EventCount(type) - 1
            /\ EventCount(type) = 0 => TruncationGap(type) = 0
        /\ (~ExceptionRaised /\ WholeAmounts(ReceivedDelegations))
               => TruncationGap("delegation") = 0
        /\ (~ExceptionRaised /\ WholeAmounts(ReceivedUndelegations))
               => TruncationGap("undelegation") = 0

\* A stream of MaxStakeEvents events whose total exceeds the displayed sum
\* by one, beside a stream of whole amounts.
C28_Witness ==
    /\ pc = "returned"
    /\ ~ExceptionRaised
    /\ EventCount("delegation") = 2
    /\ TruncationGap("delegation") = 1
    /\ EventCount("undelegation") = 1
    /\ WholeAmounts(ReceivedUndelegations)
    /\ delegation_metrics[2] > 0

-----------------------------------------------------------------------------
(* fetch_quarterly_arbitrum_data: what the remote holds and what came back.*)

\* Whether the remote gave a usable snapshot for a day.
Present(day) ==
    /\ remote_daily[day].outcome = "ok"
    /\ remote_daily[day].has_data
    /\ remote_daily[day].row.complete

StartOf(i) == remote_daily[quarters[i].start_day].row
EndOf(i) == remote_daily[quarters[i].end_day - 1].row

\* Whether quarter i has both its snapshots.
Live(i) == Present(quarters[i].start_day) /\ Present(quarters[i].end_day - 1)

\* The places of the returned list that carry the label of quarter i.
EntriesFor(i) ==
    {k \in 1..Len(quarterly_data) : quarterly_data[k].quarter = quarters[i].quarter}

Counters ==
    {<<"totalIndexingRewards", "total_rewards">>,
     <<"totalIndexingIndexerRewards", "indexer_rewards">>,
     <<"totalIndexingDelegatorRewards", "delegator_rewards">>}

Increasing(i) == \A c \in Counters : StartOf(i)[c[1]] <= EndOf(i)[c[1]]

\* C15: for every quarter computed live from two increasing snapshots, each
\* reward field is the end counter minus the start counter, converted by the
\* scale factor after the subtraction; start 100 and end 150 give 50.
C15_LiveDeltaIsEndMinusStart ==
    pc = "returned" =>
        \A i \in 1..Len(quarters) :
            (Live(i) /\ Increasing(i)) =>
                \E k \in EntriesFor(i) :
                    /\ \A c \in Counters :
                          quarterly_data[k][c[2]]
                              = (EndOf(i)[c[1]] - StartOf(i)[c[1]]) \div WeiPerGRT
                    /\ (/\ StartOf(i).totalIndexingRewards = 100 * WeiPerGRT
                        /\ EndOf(i).totalIndexingRewards = 150 * WeiPerGRT)
                       => quarterly_data[k].total_rewards = 50

\* A live quarter of the scenario, start 100 and end 150, reported as 50,
\* next to a quarter that is not live.
C15_Witness ==
    /\ pc = "returned"
    /\ \E i \in 1..Len(quarters) :
          /\ Live(i)
          /\ StartOf(i).totalIndexingRewards = 100 * WeiPerGRT
          /\ EndOf(i).totalIndexingRewards = 150 * WeiPerGRT
          /\ \E k \in EntriesFor(i) : quarterly_data[k].total_rewards = 50
    /\ \E i \in 1..Len(quarters) : ~Live(i)

\* The rollup the loop computes for a live quarter.
LiveEntry(i) ==
    [quarter |-> quarters[i].quarter, period |-> quarters[i].period,
     total_rewards |->
         (EndOf(i).totalIndexingRewards - StartOf(i).totalIndexingRewards)
             \div WeiPerGRT,
     indexer_rewards |->
         (EndOf(i).totalIndexingIndexerRewards - StartOf(i).totalIndexingIndexerRewards)
             \div WeiPerGRT,
     delegator_rewards |->
         (EndOf(i).totalIndexingDelegatorRewards
             - StartOf(i).totalIndexingDelegatorRewards) \div WeiPerGRT]

\* C16: for every quarter computed live, the one entry with its label carries
\* the live values; the fallback table neither overwrites nor duplicates it,
\* also when other quarters of the same run are filled from the table.
C16_LiveTakesPrecedence ==
    pc = "returned" =>
        \A i \in 1..Len(quarters) :
            Live(i) =>
                /\ Cardinality(EntriesFor(i)) = 1
                /\ \A k \in EntriesFor(i) :
                      /\ quarterly_data[k] = LiveEntry(i)
                      /\ quarterly_data[k] # fallback_data[i]

\* Live quarters and quarters filled from the table in the same list.
C16_Witness ==
    /\ pc = "returned"
    /\ Cardinality({i \in 1..Len(quarters) : Live(i)}) >= 2
    /\ Cardinality({i \in 1..Len(quarters) : ~Live(i)}) >= 2
    /\ \E i \in 1..Len(quarters) :
          Live(i) /\ \E k \in EntriesFor(i) : quarterly_data[k] = LiveEntry(i)
    /\ \E i \in 1..Len(quarters) :
          ~Live(i) /\ \E k \in EntriesFor(i) : quarterly_data[k] = fallback_data[i]

\* C17: whatever boundary snapshots are missing or failing, the list holds
\* each of the six labels exactly once, and a quarter without its start or
\* its end snapshot has the values of the fallback table.
C17_EveryQuarterOnce ==
    pc = "returned" =>
        /\ Len(quarterly_data) = 6
        /\ \A i \in 1..Len(quarters) :
              /\ Cardinality(EntriesFor(i)) = 1
              /\ ~Live(i) => \A k \in EntriesFor(i) : quarterly_data[k] = fallback_data[i]

\* One quarter with only its start snapshot, one with only its end snapshot,
\* one with neither and one with both.
C17_Witness ==
    /\ pc = "returned"
    /\ \E i \in 1..Len(quarters) :
          /\ Present(quarters[i].start_day) /\ ~Present(quarters[i].end_day - 1)
          /\ \E k \in EntriesFor(i) : quarterly_data[k] = fallback_data[i]
    /\ \E i \in 1..Len(quarters) :
          ~Present(quarters[i].start_day) /\ Present(quarters[i].end_day - 1)
    /\ \E i \in 1..Len(quarters) :
          ~Present(quarters[i].start_day) /\ ~Present(quarters[i].end_day - 1)
    /\ \E i \in 1..Len(quarters) : Live(i)

\* C18: the list is ordered newest quarter first, whichever quarters are live
\* and whichever are filled from the table.
C18_NewestQuarterFirst ==
    pc = "returned" =>
        [k \in 1..Len(quarterly_data) |-> quarterly_data[k].quarter]
            = <<"Q3-2025", "Q2-2025", "Q1-2025", "Q4-2024", "Q3-2024", "Q2-2024">>

\* C19: when both snapshots of a quarter are present and a counter decreases,
\* the field is the negative difference, neither clamped to 0 nor replaced by
\* the entry of the fallback table.
C19_NegativeDeltaReported ==
    pc = "returned" =>
        \A i \in 1..Len(quarters) :
            Live(i) =>
                \A c \in Counters :
                    EndOf(i)[c[1]] < StartOf(i)[c[1]] =>
                        \E k \in EntriesFor(i) :
                            /\ quarterly_data[k][c[2]] < 0
                            /\ quarterly_data[k][c[2]]
                                   = (EndOf(i)[c[1]] - StartOf(i)[c[1]]) \div WeiPerGRT
                            /\ quarterly_data[k] # fallback_data[i]

\* A live quarter whose indexer counter decreases while its total grows.
C19_Witness ==
    /\ pc = "returned"
    /\ \E i \in 1..Len(quarters) :
          /\ Live(i)
          /\ EndOf(i).totalIndexingIndexerRewards < StartOf(i).totalIndexingIndexerRewards
          /\ EndOf(i).totalIndexingRewards > StartOf(i).totalIndexingRewards
          /\ \E k \in EntriesFor(i) :
                quarterly_data[k].indexer_rewards < 0 /\ quarterly_data[k].total_rewards > 0

-----------------------------------------------------------------------------
(* count_active_delegators: what the remote holds and what was counted.    *)

\* The number of records of the page at the i-th offset requested.
ServedAt(i) == Len(page(remote_delegators, c_offsets[i], batch_size))

\* The count has returned to its caller.
CountReturned == pc # "count"

\* C21: served with success responses from a stable set of N delegators,
\* count_active_delegators adds up the size of every page, asks for the next
\* page after a full one only, has returned once a page was undersized, and
\* returns N; when the first page is empty it returns 0 after one request.
C21_CountIsNumberServed ==
    AllOk(c_outcomes) =>
        /\ active_delegators_count = Len(received_delegators)
        /\ \A i \in 1..Len(c_offsets) :
            /\ c_offsets[i] = (i - 1) * batch_size
            /\ i < Len(c_offsets) => ServedAt(i) = batch_size
            /\ ServedAt(i) < batch_size => (i = Len(c_offsets) /\ CountReturned)
        /\ CountReturned =>
            /\ active_delegators_count = Len(remote_delegators)
            /\ ServedAt(Len(c_offsets)) < batch_size
            /\ remote_delegators = <<>> =>
                (active_delegators_count = 0 /\ Len(c_offsets) = 1)

\* A full page and an undersized one were counted, and the count is N.
C21_Witness ==
    /\ mode = "count"
    /\ CountReturned
    /\ c_outcomes = <<"ok", "ok">>
    /\ Len(remote_delegators) = batch_size + 1
    /\ active_delegators_count = batch_size + 1

\* C22: a delegator that the remote sends on two pages counts once: the
\* count returned is the number of distinct delegators received.
C22_NoDoubleCount ==
    CountReturned => active_delegators_count = Cardinality(AsSet(received_delegators))

\* C26: in count_active_delegators every offset is requested once, and a
\* request that is answered with another status than 200 or that raises is
\* the last one: the function has returned, with the count of the full pages
\* before it.
C26_FailureIsTerminal ==
    /\ \A i, j \in 1..Len(c_offsets) : i # j => c_offsets[i] # c_offsets[j]
    /\ \A k \in 1..Len(c_outcomes) :
        c_outcomes[k] # "ok" =>
            /\ k = Len(c_outcomes)
            /\ CountReturned
            /\ active_delegators_count = (k - 1) * batch_size
            /\ Len(received_delegators) = (k - 1) * batch_size

\* The second request fails while the remote holds more delegators: the
\* count of the first page is returned.
C26_Witness ==
    /\ mode = "count"
    /\ CountReturned
    /\ Len(c_outcomes) = 2
    /\ c_outcomes[1] = "ok" /\ c_outcomes[2] # "ok"
    /\ Len(remote_delegators) > batch_size
    /\ active_delegators_count = batch_size

-----------------------------------------------------------------------------
(* The reward snapshots when the remote holds no graphNetwork record.      *)

\* A success response whose payload holds no graphNetwork record.
RecordAbsent(resp) == resp.outcome = "ok" /\ ~resp.has_data

\* The keys of a network's entry in the result of fetch_network_comparison_stats.
SnapshotFields ==
    {"total_rewards", "indexer_rewards", "delegator_rewards", "delegator_count",
     "active_delegators"}

\* The networks whose graphNetwork record was requested and found absent.
AbsentNetworks ==
    {n \in AsSet(stats_log) : RecordAbsent(response_stats[n])}

\* C23: when a network's graphNetwork record is absent, fetch_rewards_metrics
\* returns (0, 0, 0) and the entry of the network in the result of
\* fetch_network_comparison_stats holds every field, equal to 0.
C23_AbsentRecordIsZeroSnapshot ==
    /\ (pc = "returned" /\ RecordAbsent(response_rewards)) => rewards_metrics = <<0, 0, 0>>
    /\ \A n \in AbsentNetworks :
        \A field \in SnapshotFields :
            /\ dict_has(network_comparison[n], field)
            /\ dict_get(network_comparison[n], field, None) = 0

\* What the code does when a network's graphNetwork record is absent: no
\* exception is raised, fetch_rewards_metrics returns (0, 0, 0), and the entry
\* of the network in the result of fetch_network_comparison_stats is the
\* empty dict: it holds none of the fields, no delegator is counted for it,
\* and only a lookup with the default 0 reads 0 for a field.
AbsentRecordIsEmptySnapshot ==
    /\ pc # "raised"
    /\ (pc = "returned" /\ RecordAbsent(response_rewards)) => rewards_metrics = <<0, 0, 0>>
    /\ \A n \in AbsentNetworks :
        /\ network_comparison[n] = <<>>
        /\ ~(pc = "count" /\ c_network = n)
        /\ \A field \in SnapshotFields :
            /\ ~dict_has(network_comparison[n], field)
            /\ dict_get(network_comparison[n], field, 0) = 0

\* Both functions have returned; Arbitrum's record and the record asked for
\* by fetch_rewards_metrics were absent, Ethereum's was there.
AbsentRecordReached ==
    /\ mode = "snapshots"
    /\ pc = "returned"
    /\ RecordAbsent(response_stats["arbitrum"])
    /\ response_stats["ethereum"].has_data
    /\ RecordAbsent(response_rewards)
    /\ network_comparison["arbitrum"] = <<>>
    /\ dict_get(network_comparison["ethereum"], "delegator_count", 0) > 0
    /\ rewards_metrics = <<0, 0, 0>>

-----------------------------------------------------------------------------
(* The subgraph paginator and undersized pages.                            *)

\* The number of records of the page at the i-th offset the subgraph loop
\* requested.
SubgraphsServedAt(i) == Len(page(remote_subgraphs, s_offsets[i], page_size))

\* C25: the subgraph loop requests increasing offsets, and a page that comes
\* back with fewer than page_size records, empty or not, is the last one
\* requested: the loop has ended and no request follows it.
C25_StopsOnUndersizedPage ==
    /\ \A i \in 1..Len(s_offsets) - 1 : s_offsets[i] < s_offsets[i + 1]
    /\ \A i \in 1..Len(s_offsets) :
        (s_outcomes[i] = "ok" /\ SubgraphsServedAt(i) < page_size) =>
            /\ i = Len(s_offsets)
            /\ pc # "subgraphs"

\* What the code does: only an empty page (or a failure) ends the loop; after
\* an undersized page that holds records one more request is sent, at the
\* next offset, and its empty page ends the loop.
UndersizedPageIsFollowedByRequest ==
    /\ \A i \in 1..Len(s_offsets) : s_offsets[i] = (i - 1) * page_size
    /\ \A i \in 1..Len(s_offsets) :
        (s_outcomes[i] = "ok" /\ SubgraphsServedAt(i) = 0) =>
            (i = Len(s_offsets) /\ pc # "subgraphs")
    /\ \A i \in 1..Len(s_offsets) :
        (s_outcomes[i] = "ok" /\ SubgraphsServedAt(i) > 0) =>
            (i < Len(s_offsets) \/ pc = "subgraphs")

\* An undersized page was followed by a request, which ended the loop.
UndersizedPageReached ==
    /\ pc = "returned"
    /\ Len(s_offsets) = 3
    /\ AllOk(s_outcomes)
    /\ SubgraphsServedAt(2) = 1
    /\ SubgraphsServedAt(3) = 0
=============================================================================
